---- MODULE Spec2Model ----
(***************************************************************************)
(* Carnival (src/main.rs): a player moves, digs and builds on a walled     *)
(* tile arena.  The model follows the Bevy schedule of main():             *)
(*   startup:  spawn_player, then spawn_boundaries;                        *)
(*   every frame, in the Update stage: player_input, then - when its       *)
(*   FixedTimestep fires - validate_player_action, player_move_action,     *)
(*   player_dig_action, player_build_action in label order, and - when     *)
(*   its own FixedTimestep fires - spawn_walls, unordered relative to the  *)
(*   others.  Commands (spawn, despawn) are buffered per system and are    *)
(*   applied to the world when all systems of the pass have run.           *)
(* Wall entities carry nothing but a Position, so the wall store is a bag  *)
(* of positions (one copy per entity).                                     *)
(***************************************************************************)
EXTENDS Integers, Sequences, FiniteSets, Bags, TLC

VARIABLES
    ARENA_WIDTH,     \* const ARENA_WIDTH  (a configuration of the arena)
    ARENA_HEIGHT,    \* const ARENA_HEIGHT
    position,        \* the Player entity's Position component
    face_direction,  \* Player.face_direction
    action,          \* Player.action
    has_rock,        \* Player.has_rock
    walls,           \* bag of the Positions of the Wall entities in the world
    commands_dig,    \* despawn commands buffered by player_dig_action
    commands_build,  \* spawn commands buffered by player_build_action
    commands_spawn,  \* spawn commands buffered by spawn_walls
    pc,              \* the next system of the schedule to run
    tick_run,        \* the FixedTimestep(0.05) criterion fired for this pass
    spawn_pc,        \* spawn_walls in this pass: "off", "loop", "done"
    ticks,           \* number of passes of the action pipeline so far
    spawns,          \* number of spawn_walls invocations so far
    tick0,           \* history: the player as validate_player_action found it,
                     \* and the action it left
    dug              \* history: the player and the wall cells at the last executed
                     \* Dig, with the cells spawn_walls filled since, until a Build

vars == <<ARENA_WIDTH, ARENA_HEIGHT, position, face_direction, action, has_rock,
          walls, commands_dig, commands_build, commands_spawn, pc, tick_run,
          spawn_pc, ticks, spawns, tick0, dug>>

\* ---- bounds of the model ----
MaxWidth == 3
MaxHeight == 4
MaxTicks == 3
MaxSpawns == 1
MaxKeys == 2
MaxArena == 10

\* ---- value types ----
Action == {"Idle", "Move", "Dig", "Build"}
Direction == {"Up", "Down", "Right", "Left"}
KeyCode == {"J", "Down", "K", "Up", "L", "Right", "H", "Left", "Space"}
None == [none |-> TRUE]

\* the sets of keys that can be just-pressed in one frame
JustPressed == {ks \in SUBSET KeyCode : Cardinality(ks) <= MaxKeys}

RECURSIVE SeqToBag(_)
SeqToBag(s) ==
    IF s = <<>> THEN EmptyBag
    ELSE SeqToBag(SubSeq(s, 1, Len(s) - 1)) (+) SetToBag({s[Len(s)]})

\* boundary_positions with the second loop running over every row (0..HEIGHT)
boundary_positions_full_columns(w, h) ==
    LET rows == [i \in 1..(2 * w) |->
                    IF i % 2 = 1 THEN <<(i - 1) \div 2, 0>>
                                 ELSE <<(i - 2) \div 2, h - 1>>]
        cols == [i \in 1..(2 * h) |->
                    IF i % 2 = 1 THEN <<0, (i - 1) \div 2>>
                                 ELSE <<w - 1, (i - 2) \div 2>>]
    IN  rows \o cols

\* ---- spawn_boundaries: the Vec built by the two loops ----
boundary_positions(w, h) ==
    LET rows == [i \in 1..(2 * w) |->
                    IF i % 2 = 1 THEN <<(i - 1) \div 2, 0>>
                                 ELSE <<(i - 2) \div 2, h - 1>>]
        cols == [i \in 1..(2 * (h - 2)) |->
                    IF i % 2 = 1 THEN <<0, 1 + ((i - 1) \div 2)>>
                                 ELSE <<w - 1, 1 + ((i - 2) \div 2)>>]
    IN  rows \o cols

\* player_input with the has_rock gate of the action key inverted
player_input_gate_inverted(keys, face, act, rock) ==
    LET s1 == IF "J" \in keys \/ "Down" \in keys THEN <<"Down", "Move">> ELSE <<face, act>>
        s2 == IF "K" \in keys \/ "Up" \in keys THEN <<"Up", "Move">> ELSE s1
        s3 == IF "L" \in keys \/ "Right" \in keys THEN <<"Right", "Move">> ELSE s2
        s4 == IF "H" \in keys \/ "Left" \in keys THEN <<"Left", "Move">> ELSE s3
        a5 == IF "Space" \in keys /\ rock THEN "Dig" ELSE s4[2]
        a6 == IF "Space" \in keys /\ ~rock THEN "Build" ELSE a5
    IN  <<s4[1], a6>>

\* player_input testing the Left keys before the Right keys
player_input_left_before_right(keys, face, act, rock) ==
    LET s1 == IF "J" \in keys \/ "Down" \in keys THEN <<"Down", "Move">> ELSE <<face, act>>
        s2 == IF "K" \in keys \/ "Up" \in keys THEN <<"Up", "Move">> ELSE s1
        s3 == IF "H" \in keys \/ "Left" \in keys THEN <<"Left", "Move">> ELSE s2
        s4 == IF "L" \in keys \/ "Right" \in keys THEN <<"Right", "Move">> ELSE s3
        a5 == IF "Space" \in keys /\ ~rock THEN "Dig" ELSE s4[2]
        a6 == IF "Space" \in keys /\ rock THEN "Build" ELSE a5
    IN  <<s4[1], a6>>

\* player_input testing the action key before the directional keys
player_input_space_first(keys, face, act, rock) ==
    LET a0 == IF "Space" \in keys THEN (IF rock THEN "Build" ELSE "Dig") ELSE act
        s1 == IF "J" \in keys \/ "Down" \in keys THEN <<"Down", "Move">> ELSE <<face, a0>>
        s2 == IF "K" \in keys \/ "Up" \in keys THEN <<"Up", "Move">> ELSE s1
        s3 == IF "L" \in keys \/ "Right" \in keys THEN <<"Right", "Move">> ELSE s2
        s4 == IF "H" \in keys \/ "Left" \in keys THEN <<"Left", "Move">> ELSE s3
    IN  s4

\* ---- player_input: the new (face_direction, action) ----
player_input(keys, face, act, rock) ==
    LET s1 == IF "J" \in keys \/ "Down" \in keys THEN <<"Down", "Move">> ELSE <<face, act>>
        s2 == IF "K" \in keys \/ "Up" \in keys THEN <<"Up", "Move">> ELSE s1
        s3 == IF "L" \in keys \/ "Right" \in keys THEN <<"Right", "Move">> ELSE s2
        s4 == IF "H" \in keys \/ "Left" \in keys THEN <<"Left", "Move">> ELSE s3
        a5 == IF "Space" \in keys /\ ~rock THEN "Dig" ELSE s4[2]
        a6 == IF "Space" \in keys /\ rock THEN "Build" ELSE a5
    IN  <<s4[1], a6>>

\* ---- validate_player_action ----
validate_target(pos, face) ==
    CASE face = "Down"  -> <<pos[1], pos[2] - 1>>
      [] face = "Up"    -> <<pos[1], pos[2] + 1>>
      [] face = "Left"  -> <<pos[1] - 1, pos[2]>>
      [] face = "Right" -> <<pos[1] + 1, pos[2]>>

\* validate_player_action without the occupancy test of the Build arm
validate_player_action_build_unchecked(pos, face, act, ws) ==
    CASE act = "Move"  -> IF BagIn(validate_target(pos, face), ws) THEN "Idle" ELSE "Move"
      [] act = "Dig"   -> IF BagIn(validate_target(pos, face), ws) THEN "Dig" ELSE "Idle"
      [] act = "Build" -> "Build"
      [] act = "Idle"  -> "Idle"

\* validate_player_action whose Build arm carries the assignment of the Dig arm
validate_player_action_build_sets_dig(pos, face, act, ws) ==
    CASE act = "Move"  -> IF BagIn(validate_target(pos, face), ws) THEN "Idle" ELSE "Move"
      [] act = "Dig"   -> IF BagIn(validate_target(pos, face), ws) THEN "Dig" ELSE "Idle"
      [] act = "Build" -> IF BagIn(validate_target(pos, face), ws) THEN "Dig" ELSE "Build"
      [] act = "Idle"  -> "Idle"

validate_player_action(pos, face, act, ws) ==
    CASE act = "Move"  -> IF BagIn(validate_target(pos, face), ws) THEN "Idle" ELSE "Move"
      [] act = "Dig"   -> IF BagIn(validate_target(pos, face), ws) THEN "Dig" ELSE "Idle"
      [] act = "Build" -> IF BagIn(validate_target(pos, face), ws) THEN "Idle" ELSE "Build"
      [] act = "Idle"  -> "Idle"

\* player_move_action that also moves an Idle player
player_move_action_unguarded(pos, face, act) ==
    IF act \in {"Move", "Idle"}
    THEN <<CASE face = "Down"  -> <<pos[1], pos[2] - 1>>
             [] face = "Up"    -> <<pos[1], pos[2] + 1>>
             [] face = "Left"  -> <<pos[1] - 1, pos[2]>>
             [] face = "Right" -> <<pos[1] + 1, pos[2]>>,
           "Idle">>
    ELSE <<pos, act>>

\* player_move_action with the y axis inverted
player_move_action_inverted_y(pos, face, act) ==
    IF act = "Move"
    THEN <<CASE face = "Down"  -> <<pos[1], pos[2] + 1>>
             [] face = "Up"    -> <<pos[1], pos[2] - 1>>
             [] face = "Left"  -> <<pos[1] - 1, pos[2]>>
             [] face = "Right" -> <<pos[1] + 1, pos[2]>>,
           "Idle">>
    ELSE <<pos, act>>

\* player_move_action that leaves the action in place after moving
player_move_action_no_reset(pos, face, act) ==
    IF act = "Move"
    THEN <<CASE face = "Down"  -> <<pos[1], pos[2] - 1>>
             [] face = "Up"    -> <<pos[1], pos[2] + 1>>
             [] face = "Left"  -> <<pos[1] - 1, pos[2]>>
             [] face = "Right" -> <<pos[1] + 1, pos[2]>>,
           act>>
    ELSE <<pos, act>>

\* ---- player_move_action: the new (position, action) ----
player_move_action(pos, face, act) ==
    IF act = "Move"
    THEN <<CASE face = "Down"  -> <<pos[1], pos[2] - 1>>
             [] face = "Up"    -> <<pos[1], pos[2] + 1>>
             [] face = "Left"  -> <<pos[1] - 1, pos[2]>>
             [] face = "Right" -> <<pos[1] + 1, pos[2]>>,
           "Idle">>
    ELSE <<pos, act>>

\* ---- player_dig_action: (despawned entities, has_rock, action) ----
dig_target(pos, face) ==
    CASE face = "Down"  -> <<pos[1], pos[2] - 1>>
      [] face = "Up"    -> <<pos[1], pos[2] + 1>>
      [] face = "Left"  -> <<pos[1] - 1, pos[2]>>
      [] face = "Right" -> <<pos[1] + 1, pos[2]>>

\* player_dig_action that also digs for an Idle player
player_dig_action_unguarded(pos, face, act, rock, ws) ==
    IF act \in {"Dig", "Idle"}
    THEN LET t == dig_target(pos, face)
             found == IF BagIn(t, ws) THEN (t :> CopiesIn(t, ws)) ELSE EmptyBag
         IN  <<found, IF BagIn(t, ws) THEN TRUE ELSE rock, "Idle">>
    ELSE <<EmptyBag, rock, act>>

\* player_dig_action that despawns the walls but never sets has_rock
player_dig_action_no_rock(pos, face, act, rock, ws) ==
    IF act = "Dig"
    THEN LET t == dig_target(pos, face)
             found == IF BagIn(t, ws) THEN (t :> CopiesIn(t, ws)) ELSE EmptyBag
         IN  <<found, rock, "Idle">>
    ELSE <<EmptyBag, rock, act>>

player_dig_action(pos, face, act, rock, ws) ==
    IF act = "Dig"
    THEN LET t == dig_target(pos, face)
             \* every Wall entity whose Position equals the target
             found == IF BagIn(t, ws) THEN (t :> CopiesIn(t, ws)) ELSE EmptyBag
         IN  <<found, IF BagIn(t, ws) THEN TRUE ELSE rock, "Idle">>
    ELSE <<EmptyBag, rock, act>>

\* build_target with the y axis inverted
build_target_inverted_y(pos, face) ==
    CASE face = "Down"  -> <<pos[1], pos[2] + 1>>
      [] face = "Up"    -> <<pos[1], pos[2] - 1>>
      [] face = "Left"  -> <<pos[1] - 1, pos[2]>>
      [] face = "Right" -> <<pos[1] + 1, pos[2]>>

\* ---- player_build_action: (spawned walls, has_rock, action) ----
build_target(pos, face) ==
    CASE face = "Down"  -> <<pos[1], pos[2] - 1>>
      [] face = "Up"    -> <<pos[1], pos[2] + 1>>
      [] face = "Left"  -> <<pos[1] - 1, pos[2]>>
      [] face = "Right" -> <<pos[1] + 1, pos[2]>>

\* player_build_action without the test of the action kind
player_build_action_unguarded(pos, face, act, rock) ==
    <<SetToBag({build_target(pos, face)}), FALSE, "Idle">>

player_build_action(pos, face, act, rock) ==
    IF act = "Build"
    THEN <<SetToBag({build_target(pos, face)}), FALSE, "Idle">>
    ELSE <<EmptyBag, rock, act>>

\* ---- spawn_walls: the loop's collision test for one draw ----
Cells == (0..(ARENA_WIDTH - 1)) \X (0..(ARENA_HEIGHT - 1))

spawn_collides(target_position, player_pos, ws) ==
    target_position = player_pos \/ BagIn(target_position, ws)

\* ---- the state after the startup stage "player_loader" ----
spawn_player(widths, heights) ==
    /\ ARENA_WIDTH \in widths
    /\ ARENA_HEIGHT \in heights
    /\ position = <<1, 1>>
    /\ face_direction = "Up"
    /\ action = "Idle"
    /\ has_rock = FALSE
    /\ walls = EmptyBag
    /\ commands_dig = EmptyBag
    /\ commands_build = EmptyBag
    /\ commands_spawn = EmptyBag
    /\ pc = "boundary_loader"
    /\ tick_run = FALSE
    /\ spawn_pc = "off"
    /\ ticks = 0
    /\ spawns = 0
    /\ tick0 = None
    /\ dug = None

Init == spawn_player(3..MaxWidth, 3..MaxHeight)

\* startup stage "boundary_loader": pop every position and spawn a Wall
spawn_boundaries ==
    /\ pc = "boundary_loader"
    /\ walls' = walls (+) SeqToBag(boundary_positions(ARENA_WIDTH, ARENA_HEIGHT))
    /\ pc' = "frame"
    /\ UNCHANGED <<ARENA_WIDTH, ARENA_HEIGHT, position, face_direction, action,
                   has_rock, commands_dig, commands_build, commands_spawn,
                   tick_run, spawn_pc, ticks, spawns, tick0, dug>>

\* the run criteria of a pass: t - the pipeline runs, s - spawn_walls runs
StartPass(t, s) ==
    /\ t => ticks < MaxTicks
    /\ s => spawns < MaxSpawns
    /\ tick_run' = t
    /\ ticks' = IF t THEN ticks + 1 ELSE ticks
    /\ spawn_pc' = IF s THEN "loop" ELSE "off"
    /\ spawns' = IF s THEN spawns + 1 ELSE spawns

\* a new frame: the run criteria of the first pass are evaluated and
\* player_input, which has none, runs on the keys just pressed in this frame
Frame ==
    /\ pc = "frame"
    /\ \E t \in BOOLEAN, s \in BOOLEAN :
          /\ StartPass(t, s)
          /\ pc' = IF t THEN "validate" ELSE "apply_buffers"
    /\ \E r \in {player_input(keys, face_direction, action, has_rock) : keys \in JustPressed} :
          /\ face_direction' = r[1]
          /\ action' = r[2]
    /\ UNCHANGED <<ARENA_WIDTH, ARENA_HEIGHT, position, has_rock, walls,
                   commands_dig, commands_build, commands_spawn, tick0, dug>>

Validate ==
    /\ pc = "validate"
    /\ tick0' = [position |-> position, face_direction |-> face_direction,
                 action |-> action, has_rock |-> has_rock,
                 validated |-> validate_player_action(position, face_direction,
                                                      action, walls)]
    /\ action' = validate_player_action(position, face_direction, action, walls)
    /\ pc' = "move"
    /\ UNCHANGED <<ARENA_WIDTH, ARENA_HEIGHT, position, face_direction, has_rock,
                   walls, commands_dig, commands_build, commands_spawn, tick_run,
                   spawn_pc, ticks, spawns, dug>>

\* the Move executor ordered before the Build executor instead of the Dig one
Move_before_build ==
    /\ pc = "move"
    /\ position' = player_move_action(position, face_direction, action)[1]
    /\ action' = player_move_action(position, face_direction, action)[2]
    /\ pc' = "build"
    /\ UNCHANGED <<ARENA_WIDTH, ARENA_HEIGHT, face_direction, has_rock, walls,
                   commands_dig, commands_build, commands_spawn, tick_run,
                   spawn_pc, ticks, spawns, tick0, dug>>

Move ==
    /\ pc = "move"
    /\ position' = player_move_action(position, face_direction, action)[1]
    /\ action' = player_move_action(position, face_direction, action)[2]
    /\ pc' = "dig"
    /\ UNCHANGED <<ARENA_WIDTH, ARENA_HEIGHT, face_direction, has_rock, walls,
                   commands_dig, commands_build, commands_spawn, tick_run,
                   spawn_pc, ticks, spawns, tick0, dug>>

Dig ==
    /\ pc = "dig"
    /\ LET r == player_dig_action(position, face_direction, action, has_rock, walls)
       IN  /\ commands_dig' = r[1]
           /\ has_rock' = r[2]
           /\ action' = r[3]
           /\ dug' = IF r[1] # EmptyBag
                     THEN [position |-> position, face_direction |-> face_direction,
                           has_rock |-> has_rock, cells |-> BagToSet(walls)]
                     ELSE dug
    /\ pc' = "build"
    /\ UNCHANGED <<ARENA_WIDTH, ARENA_HEIGHT, position, face_direction, walls,
                   commands_build, commands_spawn, tick_run, spawn_pc, ticks,
                   spawns, tick0>>

Build ==
    /\ pc = "build"
    /\ LET r == player_build_action(position, face_direction, action, has_rock)
       IN  /\ commands_build' = r[1]
           /\ has_rock' = r[2]
           /\ action' = r[3]
    /\ pc' = "apply_buffers"
    /\ UNCHANGED <<ARENA_WIDTH, ARENA_HEIGHT, position, face_direction, walls,
                   commands_dig, commands_spawn, tick_run, spawn_pc, ticks,
                   spawns, tick0, dug>>

\* one draw of spawn_walls' loop: redraw on a collision, else spawn and return
SpawnWalls ==
    /\ pc \in {"validate", "move", "dig", "build", "apply_buffers"}
    /\ spawn_pc = "loop"
    /\ \E target_position \in Cells :
          IF spawn_collides(target_position, position, walls)
          THEN UNCHANGED <<commands_spawn, spawn_pc>>
          ELSE /\ commands_spawn' = SetToBag({target_position})
               /\ spawn_pc' = "done"
    /\ UNCHANGED <<ARENA_WIDTH, ARENA_HEIGHT, position, face_direction, action,
                   has_rock, walls, commands_dig, commands_build, pc, tick_run,
                   ticks, spawns, tick0, dug>>

\* all systems of the pass have run: their command buffers are applied, then
\* the criteria that fired are checked again (t, s) or the frame ends
ApplyBuffers ==
    /\ pc = "apply_buffers"
    /\ spawn_pc # "loop"
    /\ walls' = ((walls (-) commands_dig) (+) commands_build) (+) commands_spawn
    /\ commands_dig' = EmptyBag
    /\ commands_build' = EmptyBag
    /\ commands_spawn' = EmptyBag
    /\ tick0' = None
    /\ dug' = IF commands_build # EmptyBag \/ dug = None THEN None
              ELSE [dug EXCEPT !.cells = @ \cup BagToSet(commands_spawn)]
    /\ \E t \in BOOLEAN, s \in BOOLEAN :
          /\ t => tick_run
          /\ s => spawn_pc = "done"
          /\ StartPass(t, s)
          /\ pc' = IF t THEN "validate" ELSE IF s THEN "apply_buffers" ELSE "frame"
    /\ UNCHANGED <<ARENA_WIDTH, ARENA_HEIGHT, position, face_direction, action,
                   has_rock>>

Next ==
    \/ spawn_boundaries
    \/ Frame
    \/ Validate
    \/ Move
    \/ Dig
    \/ Build
    \/ SpawnWalls
    \/ ApplyBuffers

Spec == Init /\ [][Next]_vars

\* the startup stages alone, over a wider range of arenas
InitBoundary == spawn_player(3..MaxArena, 3..MaxArena)

NextBoundary == spawn_boundaries

SpecBoundary == InitBoundary /\ [][NextBoundary]_vars

\* Input Capture alone: frames in which the pipeline's timestep does not fire
\* (the pass counter is at its bound), started from the player at (1,1) either
\* untouched or after digging the perimeter wall below, with any facing and any
\* pending action
InitInput ==
    /\ ARENA_WIDTH \in 3..MaxWidth
    /\ ARENA_HEIGHT \in 3..MaxHeight
    /\ position = <<1, 1>>
    /\ face_direction \in Direction
    /\ has_rock \in BOOLEAN
    /\ action \in (IF has_rock THEN {"Idle", "Move", "Build"} ELSE {"Idle", "Move", "Dig"})
    /\ walls = IF has_rock
               THEN SeqToBag(boundary_positions(ARENA_WIDTH, ARENA_HEIGHT)) (-) SetToBag({<<1, 0>>})
               ELSE SeqToBag(boundary_positions(ARENA_WIDTH, ARENA_HEIGHT))
    /\ commands_dig = EmptyBag
    /\ commands_build = EmptyBag
    /\ commands_spawn = EmptyBag
    /\ pc = "frame"
    /\ tick_run = FALSE
    /\ spawn_pc = "off"
    /\ ticks = MaxTicks
    /\ spawns = 0
    /\ tick0 = None
    /\ dug = IF has_rock
             THEN [position |-> <<1, 1>>, face_direction |-> "Down", has_rock |-> FALSE,
                   cells |-> BagToSet(SeqToBag(boundary_positions(ARENA_WIDTH, ARENA_HEIGHT)))]
             ELSE None

NextInput ==
    \/ Frame
    \/ SpawnWalls
    \/ ApplyBuffers

SpecInput == InitInput /\ [][NextInput]_vars

TypeOK ==
    /\ action \in Action
    /\ face_direction \in Direction
    /\ has_rock \in BOOLEAN
    /\ IsABag(walls)

\* ======================= properties =======================

\* position + delta(facing), with the displacements of the data model:
\* Up (0,1), Down (0,-1), Left (-1,0), Right (1,0)
Ahead(pos, face) ==
    LET d == [Up |-> <<0, 1>>, Down |-> <<0, -1>>, Left |-> <<-1, 0>>, Right |-> <<1, 0>>]
    IN  <<pos[1] + d[face][1], pos[2] + d[face][2]>>

\* the outer ring of the arena
Ring == {c \in Cells : c[1] = 0 \/ c[1] = ARENA_WIDTH - 1 \/ c[2] = 0 \/ c[2] = ARENA_HEIGHT - 1}

\* the step that applies the command buffers of a pass in which the pipeline ran
TickEnds == pc = "apply_buffers" /\ tick0 # None /\ tick0' = None

\* C1: in every reachable state no two Wall entities have the same Position.
C1_NoTwoWallsShareAPosition ==
    \A p \in BagToSet(walls) : CopiesIn(p, walls) = 1

\* C2: whenever a wall buffered by the Wall Spawner is added to the world, its
\* cell is neither the Player's current cell nor the cell of an existing Wall.
C2_SpawnerAvoidsPlayerAndWalls ==
    [][(commands_spawn # EmptyBag /\ commands_spawn' = EmptyBag) =>
          \A c \in BagToSet(commands_spawn) : c # position /\ ~BagIn(c, walls)]_vars

\* C3: every Wall Spawner invocation terminates: whenever an invocation is in
\* its draw loop some draw ends it, also on a saturated board (where it should
\* end as a no-op).
C3_SpawnerInvocationCanEnd ==
    spawn_pc = "loop" =>
        \E c \in Cells : ~(c = position \/ BagIn(c, walls))

\* C4: a requested Move is demoted to Idle by the validator iff a Wall occupies
\* position + delta(facing); when it is not demoted the Move executor sets
\* position to exactly position + delta(facing) in that tick.
C4_MoveRejectedIffWallAhead ==
    [][ /\ (pc = "validate" /\ pc' = "move" /\ action = "Move") =>
              /\ action' \in {"Move", "Idle"}
              /\ action' = "Idle" <=> BagIn(Ahead(position, face_direction), walls)
        /\ (pc = "move" /\ pc' = "dig" /\ tick0 # None /\ tick0.action = "Move") =>
              IF BagIn(Ahead(tick0.position, tick0.face_direction), walls)
              THEN position' = tick0.position
              ELSE position' = Ahead(tick0.position, tick0.face_direction)
      ]_vars

C4_Witness ==
    /\ pc = "dig"
    /\ tick0 # None
    /\ tick0.action = "Move"
    /\ position = Ahead(tick0.position, tick0.face_direction)
    /\ position # tick0.position

\* C5: a requested Dig survives validation iff a Wall occupies position +
\* delta(facing); when it survives the Dig executor removes the Wall at that
\* cell and sets carrying; otherwise no Wall is removed and carrying is unchanged.
C5_DigSucceedsIffWallAhead ==
    [][ /\ (pc = "validate" /\ pc' = "move" /\ action = "Dig") =>
              /\ action' \in {"Dig", "Idle"}
              /\ action' = "Dig" <=> BagIn(Ahead(position, face_direction), walls)
        /\ (pc = "dig" /\ pc' = "build" /\ tick0 # None /\ tick0.action = "Dig") =>
              LET t == Ahead(tick0.position, tick0.face_direction)
              IN  IF BagIn(t, walls)
                  THEN has_rock' = TRUE /\ BagToSet(commands_dig') = {t}
                  ELSE has_rock' = tick0.has_rock /\ commands_dig' = EmptyBag
        /\ (TickEnds /\ tick0.action = "Dig") =>
              LET t == Ahead(tick0.position, tick0.face_direction)
              IN  IF BagIn(t, walls)
                  THEN /\ ~BagIn(t, walls')
                       /\ has_rock' = TRUE
                       /\ \A c \in BagToSet(walls) \ {t} : BagIn(c, walls')
                  ELSE /\ walls \sqsubseteq walls'
                       /\ has_rock' = tick0.has_rock
      ]_vars

C5_Witness ==
    /\ pc = "frame"
    /\ has_rock = TRUE
    /\ dug # None
    /\ ~BagIn(Ahead(dug.position, dug.face_direction), walls)
    /\ Ahead(dug.position, dug.face_direction) \in dug.cells

\* C6: a requested Build is demoted to Idle by the validator iff a Wall
\* occupies position + delta(facing); when it is not demoted the Build executor
\* creates exactly one new Wall at that cell and sets carrying to false.
C6_BuildRejectedIffWallAhead ==
    [][ /\ (pc = "validate" /\ pc' = "move" /\ action = "Build") =>
              /\ action' \in {"Build", "Idle"}
              /\ action' = "Idle" <=> BagIn(Ahead(position, face_direction), walls)
        /\ (pc = "build" /\ pc' = "apply_buffers" /\ tick0 # None /\ tick0.action = "Build") =>
              LET t == Ahead(tick0.position, tick0.face_direction)
              IN  IF BagIn(t, walls)
                  THEN commands_build' = EmptyBag /\ has_rock' = tick0.has_rock
                  ELSE commands_build' = SetToBag({t}) /\ has_rock' = FALSE
        /\ (TickEnds /\ tick0.action = "Build") =>
              LET t == Ahead(tick0.position, tick0.face_direction)
              IN  IF BagIn(t, walls)
                  THEN walls' = walls (+) commands_spawn
                  ELSE walls' = (walls (+) SetToBag({t})) (+) commands_spawn
      ]_vars

C6_Witness ==
    /\ pc = "apply_buffers"
    /\ tick0 # None
    /\ tick0.action = "Build"
    /\ tick0.has_rock = TRUE
    /\ has_rock = FALSE
    /\ commands_build = SetToBag({Ahead(position, face_direction)})

\* C7: at the end of every tick (after the Build executor has run) the
\* player's action is Idle, whatever Input Capture set and whether the
\* validator accepted or rejected it.
C7_ActionIdleAtEndOfTick ==
    (pc = "apply_buffers" /\ tick_run) => action = "Idle"

C7_Witness ==
    /\ pc = "apply_buffers"
    /\ tick_run
    /\ tick0 # None
    /\ tick0.action = "Move"
    /\ position # tick0.position
    /\ action = "Idle"

\* C8: within a single tick at most one of {position changes, a Wall is
\* removed, a Wall is created} is done by the executors.
C8_AtMostOneEffectPerTick ==
    (pc = "apply_buffers" /\ tick0 # None) =>
        ~(position # tick0.position /\ commands_dig # EmptyBag)
        /\ ~(position # tick0.position /\ commands_build # EmptyBag)
        /\ ~(commands_dig # EmptyBag /\ commands_build # EmptyBag)

C8_Witness ==
    /\ pc = "apply_buffers"
    /\ tick0 # None
    /\ commands_dig # EmptyBag
    /\ commands_build = EmptyBag
    /\ position = tick0.position

\* C9: for every arena with WIDTH >= 3 and HEIGHT >= 3 the Boundary Generator,
\* run on an empty board, produces exactly 2*WIDTH + 2*(HEIGHT-2) Walls with
\* pairwise distinct positions that are exactly the cells of the outer ring.
C9_BoundaryIsExactlyTheRing ==
    [][(pc = "boundary_loader" /\ walls = EmptyBag) =>
          /\ BagCardinality(walls') = 2 * ARENA_WIDTH + 2 * (ARENA_HEIGHT - 2)
          /\ \A p \in BagToSet(walls') : CopiesIn(p, walls') = 1
          /\ BagToSet(walls') = Ring]_vars

C9_Witness ==
    /\ pc = "frame"
    /\ ticks = 0
    /\ spawns = 0
    /\ ARENA_WIDTH = 7
    /\ ARENA_HEIGHT = 4
    /\ BagCardinality(walls) = 18
    /\ BagToSet(walls) = Ring

\* C10: with carrying false and a Wall at position + delta(facing), a tick
\* that executes Dig followed on a later tick by a Build with the same position
\* and facing yields a wall set whose positions equal the original ones (next to
\* the cells the Wall Spawner filled in the meantime, none when it did not run),
\* with carrying going false, true, false.
C10_DigThenBuildRoundTrip ==
    [][(/\ TickEnds
        /\ commands_build # EmptyBag
        /\ dug # None
        /\ dug.position = position
        /\ dug.face_direction = face_direction) =>
          /\ BagToSet(walls') = dug.cells \cup BagToSet(commands_spawn)
          /\ dug.has_rock = FALSE
          /\ tick0.has_rock = TRUE
          /\ has_rock' = FALSE]_vars

C10_Witness ==
    /\ pc = "apply_buffers"
    /\ spawn_pc = "off"
    /\ tick0 # None
    /\ tick0.action = "Build"
    /\ commands_build # EmptyBag
    /\ dug # None
    /\ dug.position = position
    /\ dug.face_direction = face_direction
    /\ dug.cells = BagToSet(walls) \cup {Ahead(position, face_direction)}
    /\ BagToSet(walls (+) commands_build) = dug.cells

\* C11: the Action Validator is idempotent and monotone: for every action and
\* the player and walls of any reachable state, validating twice gives what
\* validating once gives, the result is the input action or Idle, and Idle stays
\* Idle; and the action a tick's validator pass leaves is a fixed point of it.
C11_ValidatorIdempotentMonotone ==
    /\ \A act \in Action :
          LET v == validate_player_action(position, face_direction, act, walls)
          IN  /\ validate_player_action(position, face_direction, v, walls) = v
              /\ v \in {act, "Idle"}
              /\ act = "Idle" => v = "Idle"
    /\ (pc = "move" /\ tick0 # None) =>
          /\ action \in {tick0.action, "Idle"}
          /\ validate_player_action(position, face_direction, action, walls) = action

C11_Witness ==
    /\ pc = "move"
    /\ tick0 # None
    /\ tick0.action = "Build"
    /\ action = "Idle"
    /\ BagIn(Ahead(position, face_direction), walls)

C13_PositionsInsideArena ==
    /\ position \in Cells
    /\ \A p \in BagToSet(walls) : p \in Cells

\* the directions whose keys (letter or arrow) are among the pressed keys
DirsPressed(keys) ==
    {d \in Direction :
        \/ d = "Down" /\ keys \cap {"J", "Down"} # {}
        \/ d = "Up" /\ keys \cap {"K", "Up"} # {}
        \/ d = "Right" /\ keys \cap {"L", "Right"} # {}
        \/ d = "Left" /\ keys \cap {"H", "Left"} # {}}

\* the last pressed direction in the processing order Down, Up, Right, Left
LastDirection(keys) ==
    LET order == <<"Down", "Up", "Right", "Left">>
        last == CHOOSE i \in 1..4 :
                    /\ order[i] \in DirsPressed(keys)
                    /\ \A j \in (i + 1)..4 : order[j] \notin DirsPressed(keys)
    IN  order[last]

\* C14: when several directional keys are just-pressed in one Input Capture
\* pass and the action key is not, facing becomes the last of them in the order
\* Down, Up, Right, Left and action becomes Move, whatever the player's state.
C14_LastDirectionWins ==
    pc = "frame" =>
        \A keys \in JustPressed :
            (Cardinality(DirsPressed(keys)) >= 2 /\ "Space" \notin keys) =>
                player_input(keys, face_direction, action, has_rock)
                    = <<LastDirection(keys), "Move">>

C14_Witness ==
    /\ pc = "apply_buffers"
    /\ ~tick_run
    /\ has_rock
    /\ action = "Move"
    /\ face_direction = "Right"

\* C15: when the action key is just-pressed, Input Capture sets action to Dig
\* if carrying is false and to Build if it is true, whatever directional key is
\* pressed in the same pass (never Move), and facing takes the direction
\* pressed in that pass.
C15_ActionKeyOverridesDirection ==
    pc = "frame" =>
        \A keys \in JustPressed :
            "Space" \in keys =>
                LET r == player_input(keys, face_direction, action, has_rock)
                IN  /\ r[2] = (IF has_rock THEN "Build" ELSE "Dig")
                    /\ r[2] # "Move"
                    /\ r[1] = (IF DirsPressed(keys) = {} THEN face_direction
                                                        ELSE LastDirection(keys))

C15_Witness ==
    /\ pc = "apply_buffers"
    /\ ~tick_run
    /\ has_rock
    /\ action = "Build"
    /\ face_direction = "Left"

\* C16: when the validator demotes the requested action to Idle (blocked Move,
\* Dig with no wall at the target, Build into an occupied cell), the tick
\* changes nothing: at its end the position and has_rock are those at its start,
\* the pipeline has buffered no despawn and no spawn, so the wall set after the
\* pass is the one before it plus what the Wall Spawner alone buffered, and the
\* action is Idle.
C16_DemotedTickChangesNothing ==
    [][(/\ TickEnds
        /\ tick0.action # "Idle"
        /\ tick0.validated = "Idle") =>
          /\ position = tick0.position
          /\ has_rock = tick0.has_rock
          /\ face_direction = tick0.face_direction
          /\ action = "Idle"
          /\ commands_dig = EmptyBag
          /\ commands_build = EmptyBag
          /\ walls' = walls (+) commands_spawn
          /\ position' = position
          /\ has_rock' = has_rock
      ]_vars

C16_Witness ==
    /\ pc = "apply_buffers"
    /\ tick0 # None
    /\ tick0.action = "Dig"
    /\ tick0.validated = "Idle"
    /\ ~BagIn(Ahead(position, face_direction), walls)

\* C17: a Wall leaves the wall set only through the Dig executor: the number
\* of walls at a position decreases only in the step that applies the buffers
\* of a tick whose validated action was Dig, and only at that tick's dig target.
C17_WallsRemovedOnlyByDig ==
    [][\A c \in BagToSet(walls) :
          CopiesIn(c, walls') < CopiesIn(c, walls) =>
              /\ TickEnds
              /\ tick0.validated = "Dig"
              /\ commands_dig # EmptyBag
              /\ c = Ahead(tick0.position, tick0.face_direction)
      ]_vars

C17_Witness ==
    /\ pc = "apply_buffers"
    /\ tick0 # None
    /\ tick0.validated = "Dig"
    /\ BagIn(Ahead(tick0.position, tick0.face_direction), commands_dig)
    /\ commands_spawn # EmptyBag

\* C18: in every reachable state no Wall is at the Player's position.
C18_NoWallOnPlayerCell ==
    ~BagIn(position, walls)

\* C19: whenever the Build executor buffers a Wall, has_rock was true
\* immediately before, and whenever the Dig executor buffers the despawn of a
\* Wall, has_rock was false immediately before.
C19_CarryingGateHoldsAtExecution ==
    [][ /\ (pc = "build" /\ commands_build' # EmptyBag) => has_rock
        /\ (pc = "dig" /\ commands_dig' # EmptyBag) => ~has_rock
      ]_vars

C19_Witness ==
    /\ pc = "apply_buffers"
    /\ tick0 # None
    /\ tick0.action = "Build"
    /\ tick0.has_rock
    /\ commands_build # EmptyBag
    /\ ticks = MaxTicks

\* C20: between frames, the number of Wall entities plus one if the player
\* carries a rock equals the number of perimeter walls plus the number of Wall
\* Spawner invocations.
C20_WallMaterialConserved ==
    (pc = "frame" /\ spawn_pc = "off") =>
        BagCardinality(walls) + (IF has_rock THEN 1 ELSE 0)
            = Len(boundary_positions(ARENA_WIDTH, ARENA_HEIGHT)) + spawns
====
